---------------------------- MODULE Spec2Model ----------------------------
(***************************************************************************)
(* Model of src/alg/synthesis_sv/recursive_decompose_ablation.rs: exact    *)
(* Shapley values of a monotone simple game given as a DNF, computed on a  *)
(* decomposition tree (Var / And / Or / Hybrid / Leaf) under an ablation   *)
(* setting.                                                                *)
(*                                                                         *)
(* Shares are f64 in the source; here a share s is the integer s * SvScale *)
(* (exact rational arithmetic, floating-point rounding is not modelled).   *)
(* The crate's iec, dnf, product_tree, union_combination and utils modules *)
(* are outside the modelled file: their operators are modelled from their  *)
(* documented contracts and from the values the file's tests assert.       *)
(***************************************************************************)
EXTENDS Integers, Sequences, FiniteSets, TLC

VARIABLES
    game,           \* Game { dnf, owner_set }: the caller's input
    ablation_type,  \* AblationType
    pc,             \* position in cal_sv_recursive_decompose_ablation
    d,              \* RecursiveDecompose<OwnerId> (line 24)
    tree,           \* DecomposeTree (line 25)
    sv,             \* ShapleyValues returned (line 27)
    exp,            \* a leaf's Dnf<OwnerId> (line 130)
    exp_unions,     \* UnionCombination<LeafExpUnion> (line 134)
    coeffs,         \* the leaf's IECoeffs (line 135)
    reduce_state    \* the parallel reduces of cal_sv under way (lines 172-181, 206-215,
                    \* 233-248, 250-273): per node, tasks to run and partial mappings

vars == <<game, ablation_type, pc, d, tree, sv, exp, exp_unions, coeffs, reduce_state>>

(* ------------------------------ bounds --------------------------------- *)
NumOwners == 4
LeafVars == 3
LeafImps == 3

NoVal == "none"

(* ------------------------------ helpers -------------------------------- *)
RECURSIVE SumOver(_, _)
SumOver(f, S) ==
    IF S = {} THEN 0
    ELSE LET x == CHOOSE y \in S : TRUE IN f[x] + SumOver(f, S \ {x})

RECURSIVE Fact(_)
Fact(n) == IF n <= 1 THEN 1 ELSE n * Fact(n - 1)

Min(S) == CHOOSE x \in S : \A y \in S : x <= y

(* ------------------------- IECoeffs (iec module) ----------------------- *)
\* largest group size a coefficient can carry: one per owner of the tree
MaxGroup == NumOwners
Sizes == 0..MaxGroup
\* shares are scaled by SvScale, a multiple of every group size
SvScale == Fact(MaxGroup)

IEZero == [k \in Sizes |-> 0]
IEFrom(k, w) == [j \in Sizes |-> IF j = k THEN w ELSE 0]
IEAdd(a, b) == [k \in Sizes |-> a[k] + b[k]]
IESub(a, b) == [k \in Sizes |-> a[k] - b[k]]
IEMul(a, b) ==
    [k \in Sizes |-> SumOver([i \in 0..k |-> a[i] * b[k - i]], 0..k)]
\* a * b would carry a group larger than MaxGroup
IEOverflow(a, b) ==
    \E i \in Sizes, j \in Sizes : i + j > MaxGroup /\ a[i] # 0 /\ b[j] # 0

RECURSIVE IESum(_)
IESum(s) == IF Len(s) = 0 THEN IEZero ELSE IEAdd(Head(s), IESum(Tail(s)))

\* a group of size k with weight w is worth w / k
to_sv(a) == SumOver([k \in 1..MaxGroup |-> a[k] * (SvScale \div k)], 1..MaxGroup)

vertical_identity == IEFrom(0, 1)
vertical_op(a, b) == IEMul(a, b)
horizontal_identity == IEZero
horizontal_op(a, b) == IESub(IEAdd(a, b), IEMul(a, b))

(* ----------------------------- Dnf (dnf module) ------------------------ *)
\* A Dnf is the ordered sequence of its implicants, each a set of variables.
SeqRange(s) == {s[k] : k \in 1..Len(s)}

all_variables(e) == UNION SeqRange(e)

\* BTreeSet order of two distinct sets read as ascending sequences
LexLess(A, B) ==
    LET D == (A \ B) \cup (B \ A)
        x == Min(D)
    IN IF x \in A THEN \E y \in B : y > x
                  ELSE ~ \E y \in A : y > x

RECURSIVE SortImps(_)
SortImps(S) ==
    IF S = {} THEN <<>>
    ELSE LET m == CHOOSE a \in S : \A b \in S \ {a} : LexLess(a, b)
         IN <<m>> \o SortImps(S \ {m})

\* absorption: keep the minimal implicants
Minimal(S) == {a \in S : ~ \E b \in S : b # a /\ b \subseteq a}

\* fix the variables of owner_set to true and simplify
partial_eval(e, owner_set) ==
    SortImps(Minimal({I \ owner_set : I \in SeqRange(e)}))

\* the implicants that hold none of the variables of owner_set
partial_exp_complement(e, owner_set) ==
    SortImps({I \in SeqRange(e) : I \cap owner_set = {}})

(* ------------------- UnionCombination (union_combination) -------------- *)
\* Option<T>: None is <<>>, Some(u) is <<u>>
None == <<>>
Some(u) == <<u>>

\* Every union of implicants i1 < i2 < ... < im: init(i1) extended by i2, ...,
\* im in turn; a union whose extension is None is dropped with all its
\* extensions.
\* The two closures are those of leaf_exp_to_unions, over the implicant list
\* imp_list of a DNF with var_len variables.
LeafExpUnion(input_set, num_of_imp) ==
    [input_set |-> input_set, num_of_imp |-> num_of_imp]

\* lines 289-292
leaf_init(imp_list, i) == LeafExpUnion(imp_list[i], 1)

\* the extension closure without the "not the last implicant" test
leaf_extend_prune_always(imp_list, var_len, old, i) ==
    LET new_set == old.input_set \cup imp_list[i]
    IN IF Cardinality(new_set) = var_len
       THEN None
       ELSE Some(LeafExpUnion(new_set, old.num_of_imp + 1))

leaf_extend(imp_list, var_len, old, i) ==
    LET new_set == old.input_set \cup imp_list[i]
    IN IF Cardinality(new_set) = var_len /\ i # Len(imp_list)
       THEN None
       ELSE Some(LeafExpUnion(new_set, old.num_of_imp + 1))

UnionCombinationNew(imp_list, var_len) ==
    LET Build[i \in 0..Len(imp_list)] ==
            IF i = 0 THEN <<>>
            ELSE LET prev == Build[i - 1]
                     ext == [k \in 1..Len(prev) |->
                                leaf_extend(imp_list, var_len, prev[k], i)]
                     kept == SelectSeq(ext, LAMBDA o : Len(o) = 1)
                 IN prev \o <<leaf_init(imp_list, i)>>
                         \o [k \in 1..Len(kept) |-> kept[k][1]]
    IN Build[Len(imp_list)]

leaf_exp_to_unions(e) ==
    LET var_len == Cardinality(all_variables(e))
        imp_list == e
    IN UnionCombinationNew(imp_list, var_len)

leaf_exp_unions_coeffs(us) ==
    IESum([k \in 1..Len(us) |->
            LET u == us[k]
                sign == IF u.num_of_imp % 2 = 0 THEN -1 ELSE 1
            IN IEFrom(Cardinality(u.input_set), sign)])

leaf_exp_unions_interaction(us1, us2) ==
    IESum([p \in 1..(Len(us1) * Len(us2)) |->
            LET u1 == us1[((p - 1) \div Len(us2)) + 1]
                u2 == us2[((p - 1) % Len(us2)) + 1]
                input_set == u1.input_set \cup u2.input_set
                sign == IF (u1.num_of_imp + u2.num_of_imp) % 2 = 0 THEN 1 ELSE -1
            IN IEFrom(Cardinality(input_set), sign)])

(* --------------------------- ProductTree ------------------------------- *)
\* the combining operator is handed over by name
ApplyOp(op, a, b) ==
    IF op = "vertical_op" THEN vertical_op(a, b) ELSE horizontal_op(a, b)

FoldSeq(op, base, s) ==
    LET F[i \in 0..Len(s)] == IF i = 0 THEN base ELSE ApplyOp(op, F[i - 1], s[i])
    IN F[Len(s)]

RemoveAt(s, i) == [k \in 1..(Len(s) - 1) |-> IF k < i THEN s[k] ELSE s[k + 1]]

\* ProductTree::new(values, op, need_root): the values and, when asked for,
\* their combination
ProductTreeNew(values, op, need_root) ==
    [values |-> values,
     root |-> IF need_root THEN Some(FoldSeq(op, Head(values), Tail(values)))
              ELSE None]

ProductTreeRoot(pt) == pt.root[1]

\* all_products: for each index, the combination of all the OTHER values
ProductTreeAllProducts(pt, identity, op) ==
    [i \in 1..Len(pt.values) |-> FoldSeq(op, identity, RemoveAt(pt.values, i))]

(* --------------------------- HybridCoeffs ------------------------------ *)
\* HybridCoeffs::new keeps the children's coefficients; the coefficient of a
\* set of child indices is the product of those children's coefficients.
HybridCoeffsNew(children_coeffs) == children_coeffs

RECURSIVE IEProdOver(_, _)
IEProdOver(hc, S) ==
    IF S = {} THEN IEFrom(0, 1)
    ELSE LET i == Min(S) IN IEMul(hc[i], IEProdOver(hc, S \ {i}))

exp_to_input_unions(e) == UnionCombinationNew(e, Cardinality(all_variables(e)))

hybrid_exp_unions_coeffs(hc, us) ==
    IESum([k \in 1..Len(us) |->
            LET u == us[k]
                sign == IF u.num_of_imp % 2 = 0 THEN -1 ELSE 1
            IN IEMul(IEFrom(0, sign), IEProdOver(hc, u.input_set))])

hybrid_exp_unions_interaction(hc, us1, us2) ==
    IESum([p \in 1..(Len(us1) * Len(us2)) |->
            LET u1 == us1[((p - 1) \div Len(us2)) + 1]
                u2 == us2[((p - 1) % Len(us2)) + 1]
                sign == IF (u1.num_of_imp + u2.num_of_imp) % 2 = 0 THEN 1 ELSE -1
            IN IEMul(IEFrom(0, sign),
                     IEProdOver(hc, u1.input_set \cup u2.input_set))])

hybrid_exp_coeffs(hc, hybrid_exp) ==
    hybrid_exp_unions_coeffs(hc, exp_to_input_unions(hybrid_exp))

(* ------------------------- RecursiveDecompose -------------------------- *)
RDVar(id) == [kind |-> "Var", id |-> id]
RDAnd(children) == [kind |-> "And", children |-> children]
RDOr(children) == [kind |-> "Or", children |-> children]
RDHybrid(hybrid_exp, sub_exps) ==
    [kind |-> "Hybrid", hybrid_exp |-> hybrid_exp, sub_exps |-> sub_exps]

ProdImps(A, B) == {a \cup b : a \in A, b \in B}

RECURSIVE ProdOverIdx(_, _)
ProdOverIdx(parts, S) ==
    IF S = {} THEN {{}}
    ELSE LET i == Min(S) IN ProdImps(parts[i], ProdOverIdx(parts, S \ {i}))

\* the implicants of the flat DNF of a decomposition
RECURSIVE expand_set(_)
expand_set(input) ==
    CASE input.kind = "Var" -> {{input.id}}
      [] input.kind = "And" ->
            LET parts == [k \in 1..Len(input.children) |-> expand_set(input.children[k])]
            IN ProdOverIdx(parts, 1..Len(parts))
      [] input.kind = "Or" ->
            UNION {expand_set(input.children[k]) : k \in 1..Len(input.children)}
      [] input.kind = "Hybrid" ->
            LET parts == [k \in 1..Len(input.sub_exps) |-> expand_set(input.sub_exps[k])]
            IN UNION {ProdOverIdx(parts, H) : H \in SeqRange(input.hybrid_exp)}

expand(input) == SortImps(expand_set(input))

(* ----------------------------- AblationType ---------------------------- *)
AblationTypes == {"NoHorizontal", "NoVertical", "NoHybrid"}

(* ----------------------------- DecomposeTree --------------------------- *)
TVar(id) == [kind |-> "Var", id |-> id]

\* DecomposeTree::coeffs
tree_coeffs(t) ==
    IF t.kind = "Var" THEN IEFrom(1, 1) ELSE t.coeffs[1]

\* the guards with the And and the Or arm's settings exchanged
permitted_swapped(kind, abl) ==
    CASE kind = "And" -> abl # "NoHorizontal"
      [] kind = "Or" -> abl # "NoVertical"
      [] kind = "Hybrid" -> abl # "NoHybrid"
      [] OTHER -> FALSE
\* the match guards of lines 58, 81 and 107
permitted(kind, abl) ==
    CASE kind = "And" -> abl # "NoVertical"
      [] kind = "Or" -> abl # "NoHorizontal"
      [] kind = "Hybrid" -> abl # "NoHybrid"
      [] OTHER -> FALSE

RECURSIVE new(_, _, _)
new(input, is_root, abl) ==
    CASE input.kind = "Var" -> TVar(input.id)
      [] input.kind = "And" /\ permitted("And", abl) ->
            LET children == [k \in 1..Len(input.children) |->
                                new(input.children[k], FALSE, abl)]
                children_coeffs == [k \in 1..Len(children) |-> tree_coeffs(children[k])]
                product_tree == ProductTreeNew(children_coeffs, "vertical_op", ~is_root)
            IN [kind |-> "And",
                coeffs |-> IF is_root THEN None ELSE Some(ProductTreeRoot(product_tree)),
                products |-> ProductTreeAllProducts(product_tree, vertical_identity,
                                                    "vertical_op"),
                children |-> children]
      [] input.kind = "Or" /\ permitted("Or", abl) ->
            LET children == [k \in 1..Len(input.children) |->
                                new(input.children[k], FALSE, abl)]
                children_coeffs == [k \in 1..Len(children) |-> tree_coeffs(children[k])]
                product_tree == ProductTreeNew(children_coeffs, "horizontal_op", ~is_root)
            IN [kind |-> "Or",
                coeffs |-> IF is_root THEN None ELSE Some(ProductTreeRoot(product_tree)),
                products |-> ProductTreeAllProducts(product_tree, horizontal_identity,
                                                    "horizontal_op"),
                children |-> children]
      [] input.kind = "Hybrid" /\ permitted("Hybrid", abl) ->
            LET children == [k \in 1..Len(input.sub_exps) |->
                                new(input.sub_exps[k], FALSE, abl)]
                children_coeffs == [k \in 1..Len(children) |-> tree_coeffs(children[k])]
                hybrid_coeffs == HybridCoeffsNew(children_coeffs)
            IN [kind |-> "Hybrid",
                coeffs |-> IF is_root THEN None
                           ELSE Some(hybrid_exp_coeffs(hybrid_coeffs, input.hybrid_exp)),
                hybrid_coeffs |-> hybrid_coeffs,
                hybrid_exp |-> input.hybrid_exp,
                children |-> children]
      [] OTHER ->
            LET e == expand(input)
            IN [kind |-> "Leaf",
                coeffs |-> IF is_root THEN None
                           ELSE Some(leaf_exp_unions_coeffs(leaf_exp_to_unions(e))),
                exp |-> e]

(* ----------------------------- ShapleyValues --------------------------- *)
SvDefault == [k \in {} |-> 0]
SvFrom(id, share) == [k \in {id} |-> share]
SvInsert(m, id, share) ==
    [k \in (DOMAIN m) \cup {id} |-> IF k = id THEN share ELSE m[k]]
\* utils::hashmap_reduce: the union of two mappings
hashmap_reduce(a, b) ==
    [k \in (DOMAIN a) \cup (DOMAIN b) |-> IF k \in DOMAIN b THEN b[k] ELSE a[k]]

\* .reduce(ShapleyValues::default, hashmap_reduce) over the results in order
RECURSIVE ReduceSv(_)
ReduceSv(results) ==
    IF Len(results) = 0 THEN SvDefault
    ELSE hashmap_reduce(ReduceSv(SubSeq(results, 1, Len(results) - 1)),
                        results[Len(results)])

RECURSIVE SvInsertAll(_, _, _)
SvInsertAll(m, ids, share) ==
    IF Len(ids) = 0 THEN m
    ELSE SvInsertAll(SvInsert(m, Head(ids), share), Tail(ids), share)

(* ------------------------- DecomposeTree::cal_sv ----------------------- *)
\* indices of the Var children, in order (var_children of lines 163-170)
RECURSIVE IdxWhere(_, _, _)
IdxWhere(children, k, is_var) ==
    IF k > Len(children) THEN <<>>
    ELSE (IF (children[k].kind = "Var") = is_var THEN <<k>> ELSE <<>>)
         \o IdxWhere(children, k + 1, is_var)

\* the And weight without the other children's product
and_next_gamma_map_plain(node, gamma_map, i) == gamma_map
\* the weight handed to child i of an And node (lines 177-178, 184-185)
and_next_gamma_map(node, gamma_map, i) == IEMul(gamma_map, node.products[i])
\* the Or weight without the subtraction from gamma_map
or_next_gamma_map_no_sub(node, gamma_map, i) == IEMul(gamma_map, node.products[i])
\* the weight handed to child i of an Or node (lines 211-212, 218-219)
or_next_gamma_map(node, gamma_map, i) ==
    IESub(gamma_map, IEMul(gamma_map, node.products[i]))

next_gamma_map(node, gamma_map, i) ==
    IF node.kind = "And" THEN and_next_gamma_map(node, gamma_map, i)
    ELSE or_next_gamma_map(node, gamma_map, i)

\* the fast path takes the products entry of the very first child
fast_path_index_first_child(var_children) == 1
\* the fast path takes the products entry of the first Var child (183, 217)
fast_path_index(var_children) == Head(var_children)

\* the fast path keys the share by the child's index
var_child_ids_by_index(node, var_children) == var_children
\* the owner ids of the Var children: the keys the fast path inserts (187-189)
var_child_ids(node, var_children) ==
    [k \in 1..Len(var_children) |-> node.children[var_children[k]].id]

\* the Hybrid weight with the interaction term left out
hybrid_next_gamma_map_no_interaction(node, gamma_map, i) ==
    LET exp_p2 == partial_eval(node.hybrid_exp, {i})
        map_p2 == hybrid_exp_unions_coeffs(node.hybrid_coeffs,
                                           exp_to_input_unions(exp_p2))
    IN IEMul(gamma_map, map_p2)
\* the weight handed to child i of a Hybrid node (lines 237-245)
hybrid_next_gamma_map(node, gamma_map, i) ==
    LET owner_set == {i}
        exp_p2 == partial_eval(node.hybrid_exp, owner_set)
        exp_p3 == partial_exp_complement(node.hybrid_exp, owner_set)
        exp_p2_unions == exp_to_input_unions(exp_p2)
        exp_p3_unions == exp_to_input_unions(exp_p3)
        map_p2 == hybrid_exp_unions_coeffs(node.hybrid_coeffs, exp_p2_unions)
        iece_map == hybrid_exp_unions_interaction(node.hybrid_coeffs,
                                                  exp_p2_unions, exp_p3_unions)
    IN IEMul(gamma_map, IESub(map_p2, iece_map))

\* the Leaf share with the interaction term left out
leaf_sv_no_interaction(e, gamma_map, c) ==
    LET exp_p2 == partial_eval(e, {c})
        map_p2 == leaf_exp_unions_coeffs(leaf_exp_to_unions(exp_p2))
    IN to_sv(IEMul(IEFrom(1, 1), IEMul(gamma_map, map_p2)))
\* the share of variable c of a Leaf (lines 252-272)
leaf_sv(e, gamma_map, c) ==
    LET owner_set == {c}
        exp_p2 == partial_eval(e, owner_set)
        exp_p3 == partial_exp_complement(e, owner_set)
        exp_p2_unions == leaf_exp_to_unions(exp_p2)
        map_p2 == leaf_exp_unions_coeffs(exp_p2_unions)
        exp_p3_unions == leaf_exp_to_unions(exp_p3)
        iece_map == leaf_exp_unions_interaction(exp_p2_unions, exp_p3_unions)
        next == IF all_variables(exp_p2) = {}
                THEN IESub(gamma_map, IEMul(gamma_map, iece_map))
                ELSE IEMul(gamma_map, IESub(map_p2, iece_map))
    IN to_sv(IEMul(IEFrom(1, 1), next))

RECURSIVE cal_sv(_, _)
cal_sv(node, gamma_map) ==
    CASE node.kind = "Var" ->
            SvFrom(node.id, to_sv(IEMul(IEFrom(1, 1), gamma_map)))
      [] node.kind \in {"And", "Or"} ->
            LET var_children == IdxWhere(node.children, 1, TRUE)
                others == IdxWhere(node.children, 1, FALSE)
                ans == ReduceSv([k \in 1..Len(others) |->
                                   cal_sv(node.children[others[k]],
                                          next_gamma_map(node, gamma_map, others[k]))])
            IN IF Len(var_children) > 0
               THEN LET i == fast_path_index(var_children)
                        share == to_sv(IEMul(IEFrom(1, 1),
                                             next_gamma_map(node, gamma_map, i)))
                    IN SvInsertAll(ans, var_child_ids(node, var_children), share)
               ELSE ans
      [] node.kind = "Hybrid" ->
            ReduceSv([i \in 1..Len(node.children) |->
                        cal_sv(node.children[i],
                               hybrid_next_gamma_map(node, gamma_map, i))])
      [] node.kind = "Leaf" ->
            LET vs == all_variables(node.exp)
            IN [c \in vs |-> leaf_sv(node.exp, gamma_map, c)]

(* ------------------- recursive_decompose (dnf module) ------------------ *)
\* The structural decomposition of a DNF whose implicants are its minimal
\* winning coalitions: a disjunction of variable-disjoint parts is an Or, a
\* conjunction of variable-disjoint parts an And, anything else a Hybrid of
\* its maximal modules under a combining expression over the child indices.
Vars(F) == UNION F

RECURSIVE Component(_, _)
Component(F, S) ==
    LET T == S \cup UNION {I \in F : I \cap S # {}}
    IN IF T = S THEN S ELSE Component(F, T)

Components(F) == {Component(F, {v}) : v \in Vars(F)}

Splits(F, B) == F = ProdImps({I \cap B : I \in F}, {I \ B : I \in F})

Blocks(F) ==
    LET V == Vars(F)
        splitters == {B \in SUBSET V : B # {} /\ Splits(F, B)}
    IN {{u \in V : \A B \in splitters : v \in B => u \in B} : v \in V}

IsModule(F, M) ==
    LET FM == {I \in F : I \cap M # {}}
    IN FM = ProdImps({I \cap M : I \in FM}, {I \ M : I \in FM})

MaxModules(F) ==
    LET V == Vars(F)
        mods == {M \in SUBSET V : M # {} /\ M # V /\ IsModule(F, M)}
    IN {M \in mods : ~ \E M2 \in mods : M \subseteq M2 /\ M # M2}

\* variable-disjoint sets in the order of their least variable
RECURSIVE SortByMin(_)
SortByMin(P) ==
    IF P = {} THEN <<>>
    ELSE LET m == CHOOSE a \in P : \A b \in P : Min(a) <= Min(b)
         IN <<m>> \o SortByMin(P \ {m})

Restrict(F, M) == {I \cap M : I \in {J \in F : J \cap M # {}}}

RECURSIVE decompose_set(_)
decompose_set(F) ==
    IF Cardinality(Vars(F)) = 1 THEN RDVar(Min(Vars(F)))
    ELSE IF Cardinality(Components(F)) > 1
    THEN LET parts == SortByMin(Components(F))
         IN RDOr([k \in 1..Len(parts) |-> decompose_set(Restrict(F, parts[k]))])
    ELSE IF Cardinality(Blocks(F)) > 1
    THEN LET parts == SortByMin(Blocks(F))
         IN RDAnd([k \in 1..Len(parts) |-> decompose_set(Restrict(F, parts[k]))])
    ELSE LET parts == SortByMin(MaxModules(F))
         IN RDHybrid(SortImps({{k \in 1..Len(parts) : parts[k] \cap I # {}} : I \in F}),
                     [k \in 1..Len(parts) |-> decompose_set(Restrict(F, parts[k]))])

\* The owner set takes no part: the test of lines 374-385 hands in an owner
\* set that lacks two variables of the formula and reads their shares.
recursive_decompose(dnf, owner_set) == decompose_set(SeqRange(dnf))

(* ---------------------------- the inputs ------------------------------- *)
Owners == 1..NumOwners
\* The sets of minimal winning coalitions of all monotone games on 1..n: such
\* a game is A \/ (n /\ B) for games A => B on 1..(n-1).
RECURSIVE Antichains(_)
Antichains(n) ==
    IF n = 0 THEN {{}, {{}}}
    ELSE LET P == Antichains(n - 1)
         IN {A \cup {b \cup {n} : b \in {c \in B : ~ \E a \in A : a \subseteq c}} :
                <<A, B>> \in {q \in P \X P :
                                \A a \in q[1] : \E b \in q[2] : b \subseteq a}}
\* every DNF over the owners whose implicants are non-empty and minimal
Dnfs == Antichains(NumOwners) \ {{}, {{}}}
OwnerSets == {1..NumOwners, 1..(NumOwners - 1)}

WellFormed(g) == all_variables(g.dnf) \subseteq g.owner_set

(* ----------------- cal_sv_recursive_decompose_ablation ----------------- *)
cal_sv_recursive_decompose_ablation(g, abl) ==
    LET dd == recursive_decompose(g.dnf, g.owner_set)
        t == new(dd, TRUE, abl)
        gamma_map == IEFrom(0, 1)
    IN cal_sv(t, gamma_map)

Init ==
    /\ game \in {[dnf |-> SortImps(F), owner_set |-> O] : F \in Dnfs, O \in OwnerSets}
    /\ ablation_type \in AblationTypes
    /\ pc = "start"
    /\ d = NoVal /\ tree = NoVal /\ sv = NoVal
    /\ exp = NoVal /\ exp_unions = NoVal /\ coeffs = NoVal
    /\ reduce_state = NoVal

\* line 24 preceded by a check of the Game invariant
DecomposeChecked ==
    /\ pc = "start"
    /\ IF WellFormed(game)
       THEN d' = recursive_decompose(game.dnf, game.owner_set) /\ pc' = "decomposed"
       ELSE d' = d /\ pc' = "failed"
    /\ UNCHANGED <<game, ablation_type, tree, sv, exp, exp_unions, coeffs, reduce_state>>
\* line 24
Decompose ==
    /\ pc = "start"
    /\ d' = recursive_decompose(game.dnf, game.owner_set)
    /\ pc' = "decomposed"
    /\ UNCHANGED <<game, ablation_type, tree, sv, exp, exp_unions, coeffs, reduce_state>>

\* line 25
NewTree ==
    /\ pc = "decomposed"
    /\ tree' = new(d, TRUE, ablation_type)
    /\ pc' = "built"
    /\ UNCHANGED <<game, ablation_type, d, sv, exp, exp_unions, coeffs, reduce_state>>

\* lines 26-27
CalSv ==
    /\ pc = "built"
    /\ sv' = cal_sv(tree, IEFrom(0, 1))
    /\ pc' = "done"
    /\ UNCHANGED <<game, ablation_type, d, tree, exp, exp_unions, coeffs, reduce_state>>

Next == Decompose \/ NewTree \/ CalSv

Spec == Init /\ [][Next]_vars

(* ----------------------- the exact Shapley value ----------------------- *)
Wins(F, S) == \E I \in F : I \subseteq S

\* n! times the Shapley value of owner i among the players N: a coalition S
\* of the other players precedes i in |S|! (n-1-|S|)! of the n! orderings,
\* and i's marginal contribution there is 1 iff S loses and S + i wins.
ShapleyTimesFact(F, N, i) ==
    LET n == Cardinality(N)
        pivotal == {S \in SUBSET (N \ {i}) : Wins(F, S \cup {i}) /\ ~Wins(F, S)}
    IN SumOver([S \in pivotal |-> Fact(Cardinality(S)) * Fact(n - 1 - Cardinality(S))],
               pivotal)

IsExact(g, m, i) ==
    LET F == SeqRange(g.dnf)
        N == g.owner_set \cup all_variables(g.dnf)
    IN /\ i \in DOMAIN m
       /\ m[i] * Fact(Cardinality(N)) = SvScale * ShapleyTimesFact(F, N, i)

Done == pc = "done"

(* C1: for a well-formed game and every ablation setting, the share returned
   for each owner appearing in the formula is that owner's exact Shapley
   value: the average over all orderings of the owners of its marginal
   contribution. *)
C1_ExactShapley ==
    (Done /\ WellFormed(game)) =>
        \A i \in all_variables(game.dnf) : IsExact(game, sv, i)

C1_Witness ==
    /\ Done /\ WellFormed(game)
    /\ tree.kind = "Hybrid"
    /\ \E k \in 1..Len(tree.children) : tree.children[k].kind = "Or"
    /\ \E i \in DOMAIN sv, j \in DOMAIN sv : sv[i] # sv[j]

(* C2: for a well-formed game and every ablation setting, the shares of the
   returned mapping sum to 1. *)
C2_SumToOne ==
    (Done /\ WellFormed(game)) => SumOver(sv, DOMAIN sv) = SvScale

C2_Witness ==
    /\ Done /\ WellFormed(game)
    /\ tree.kind = "Hybrid"
    /\ Cardinality(DOMAIN sv) = NumOwners
    /\ SumOver(sv, DOMAIN sv) = SvScale

(* C3: the three ablation settings return the same mapping for the same
   game. *)
C3_AblationAgreement ==
    Done => \A a \in AblationTypes : sv = cal_sv_recursive_decompose_ablation(game, a)

C3_Witness ==
    /\ Done
    /\ d.kind = "Or"
    /\ \E k \in 1..Len(d.children) : d.children[k].kind = "And"
    /\ tree.kind = "Leaf"
    /\ new(d, TRUE, "NoVertical").kind = "Or"

C6_FailsFast == ~WellFormed(game) => pc # "done"

(* C6 amended: a game with a formula variable outside the owner set is not
   refused: every step runs as for a well-formed game and the returned
   mapping gives every variable of the formula, the ones missing from the
   owner set included, its exact Shapley value among the owners and the
   variables of the formula. *)
C6_MalformedStillComputed ==
    ~WellFormed(game) =>
        /\ pc # "failed"
        /\ Done => /\ DOMAIN sv = all_variables(game.dnf)
                   /\ \A i \in all_variables(game.dnf) : IsExact(game, sv, i)

C6_Witness ==
    /\ Done /\ ~WellFormed(game)
    /\ \E i \in all_variables(game.dnf) \ game.owner_set : sv[i] > 0

(* ------------------ the tree against the decomposition ----------------- *)
RDChildren(input) ==
    IF input.kind = "Hybrid" THEN input.sub_exps ELSE input.children

\* the value of a decomposition on the coalition S
RECURSIVE EvalRD(_, _)
EvalRD(input, S) ==
    CASE input.kind = "Var" -> input.id \in S
      [] input.kind = "And" ->
            \A k \in 1..Len(input.children) : EvalRD(input.children[k], S)
      [] input.kind = "Or" ->
            \E k \in 1..Len(input.children) : EvalRD(input.children[k], S)
      [] input.kind = "Hybrid" ->
            \E H \in SeqRange(input.hybrid_exp) :
                \A k \in H : EvalRD(input.sub_exps[k], S)

RECURSIVE RDOwners(_)
RDOwners(input) ==
    IF input.kind = "Var" THEN {input.id}
    ELSE UNION {RDOwners(RDChildren(input)[k]) : k \in 1..Len(RDChildren(input))}

RECURSIVE KindsOf(_)
KindsOf(t) ==
    IF t.kind \in {"Var", "Leaf"} THEN {t.kind}
    ELSE {t.kind} \cup UNION {KindsOf(t.children[k]) : k \in 1..Len(t.children)}

DisabledKind(abl) ==
    CASE abl = "NoVertical" -> "And"
      [] abl = "NoHorizontal" -> "Or"
      [] abl = "NoHybrid" -> "Hybrid"

RECURSIVE Ablated(_, _, _)
Ablated(input, t, abl) ==
    CASE input.kind = "Var" -> t.kind = "Var" /\ t.id = input.id
      [] input.kind = DisabledKind(abl) ->
            /\ t.kind = "Leaf"
            /\ "children" \notin DOMAIN t
            /\ \A S \in SUBSET RDOwners(input) :
                  Wins(SeqRange(t.exp), S) = EvalRD(input, S)
      [] OTHER ->
            /\ t.kind = input.kind
            /\ Len(t.children) = Len(RDChildren(input))
            /\ \A k \in 1..Len(t.children) :
                  Ablated(RDChildren(input)[k], t.children[k], abl)

Built == pc \in {"built", "done"}

(* C8: the tree built by DecomposeTree::new has no node of the disabled kind
   at any depth; each such node of the decomposition is a childless Leaf
   holding the DNF of its whole subtree, and every Var node and every node of
   a permitted kind outside a replaced subtree keeps its kind and its number
   of children. *)
C8_NoDisabledKind ==
    Built => /\ DisabledKind(ablation_type) \notin KindsOf(tree)
             /\ Ablated(d, tree, ablation_type)

C8_Witness ==
    /\ pc = "built"
    /\ tree.kind \in {"And", "Or", "Hybrid"}
    /\ \E k \in 1..Len(tree.children) :
          /\ tree.children[k].kind = "Leaf"
          /\ d.kind = "Hybrid" => d.sub_exps[k].kind = DisabledKind(ablation_type)
          /\ d.kind # "Hybrid" => d.children[k].kind = DisabledKind(ablation_type)

(* ------------------------- the And / Or fast path ---------------------- *)
\* the (node, weight) pairs of the And and Or nodes cal_sv is called on
RECURSIVE Visits(_, _)
RECURSIVE VisitsFrom(_, _, _)
VisitsFrom(node, gamma_map, k) ==
    IF k > Len(node.children) THEN <<>>
    ELSE (CASE node.children[k].kind = "Var" -> <<>>
            [] node.kind = "Hybrid" ->
                  Visits(node.children[k], hybrid_next_gamma_map(node, gamma_map, k))
            [] OTHER ->
                  Visits(node.children[k], next_gamma_map(node, gamma_map, k)))
         \o VisitsFrom(node, gamma_map, k + 1)

Visits(node, gamma_map) ==
    CASE node.kind \in {"And", "Or"} ->
            <<<<node, gamma_map>>>> \o VisitsFrom(node, gamma_map, 1)
      [] node.kind = "Hybrid" -> VisitsFrom(node, gamma_map, 1)
      [] OTHER -> <<>>

\* the general rule's weight for child j
GeneralWeight(node, gamma_map, j) ==
    IF node.kind = "And"
    THEN IEMul(gamma_map, node.products[j])
    ELSE IESub(gamma_map, IEMul(gamma_map, node.products[j]))

(* C9: at every And and Or node cal_sv reaches, the share the fast path
   assigns to a Variable child j equals cal_sv of Var(j) under the general
   rule's weight for index j: weight * products[j] at an And node,
   weight - weight * products[j] at an Or node. *)
C9_FastPathIsGeneralRule ==
    Built =>
        LET vs == Visits(tree, IEFrom(0, 1))
        IN \A v \in 1..Len(vs) :
              LET node == vs[v][1]
                  g == vs[v][2]
              IN \A j \in 1..Len(node.children) :
                    node.children[j].kind = "Var" =>
                        cal_sv(node, g)[node.children[j].id] =
                        cal_sv(node.children[j],
                               GeneralWeight(node, g, j))[node.children[j].id]

C9_Witness ==
    /\ Built
    /\ tree.kind \in {"And", "Or"}
    /\ tree.children[1].kind # "Var"
    /\ Len(IdxWhere(tree.children, 1, TRUE)) >= 2
    /\ tree.products[1] # tree.products[2]

(* ----------------------- a leaf's coefficient -------------------------- *)
LeafSets == SUBSET (1..LeafVars)
LeafDnfs ==
    {e \in UNION {[1..n -> LeafSets] : n \in 0..LeafImps} :
        \A i \in 1..Len(e), j \in 1..Len(e) : e[i] = e[j] => i = j}

InitLeaf ==
    /\ pc = "leaf"
    /\ exp \in LeafDnfs
    /\ exp_unions = NoVal /\ coeffs = NoVal
    /\ game = NoVal /\ ablation_type = NoVal
    /\ d = NoVal /\ tree = NoVal /\ sv = NoVal
    /\ reduce_state = NoVal

\* line 134
LeafExpToUnions ==
    /\ pc = "leaf"
    /\ exp_unions' = leaf_exp_to_unions(exp)
    /\ pc' = "unions"
    /\ UNCHANGED <<game, ablation_type, d, tree, sv, exp, coeffs, reduce_state>>

\* line 135
LeafExpUnionsCoeffs ==
    /\ pc = "unions"
    /\ coeffs' = leaf_exp_unions_coeffs(exp_unions)
    /\ pc' = "coeffs"
    /\ UNCHANGED <<game, ablation_type, d, tree, sv, exp, exp_unions, reduce_state>>

NextLeaf == LeafExpToUnions \/ LeafExpUnionsCoeffs

SpecLeaf == InitLeaf /\ [][NextLeaf]_vars

RECURSIVE IESumSet(_, _)
IESumSet(f, S) ==
    IF S = {} THEN IEZero
    ELSE LET x == CHOOSE y \in S : TRUE IN IEAdd(f[x], IESumSet(f, S \ {x}))

\* the inclusion-exclusion sum over ALL non-empty subsets of the implicants
FullInclusionExclusion(e) ==
    LET subsets == (SUBSET (1..Len(e))) \ {{}}
    IN IESumSet([T \in subsets |->
                    IEFrom(Cardinality(UNION {e[t] : t \in T}),
                           IF Cardinality(T) % 2 = 1 THEN 1 ELSE -1)],
                subsets)

RECURSIVE Pow2(_)
Pow2(n) == IF n = 0 THEN 1 ELSE 2 * Pow2(n - 1)

(* C10: for every leaf DNF, the coefficient leaf_exp_unions_coeffs computes
   over the pruned unions of leaf_exp_to_unions equals the inclusion-
   exclusion sum over all non-empty subsets of the implicants, a subset of m
   implicants with a union of k variables counting (k, +1) for odd m and
   (k, -1) for even m. *)
C10_PruningKeepsCoefficient ==
    pc = "coeffs" => coeffs = FullInclusionExclusion(exp)

C10_Witness ==
    /\ pc = "coeffs"
    /\ Len(exp) = LeafImps
    /\ Len(exp_unions) < Pow2(Len(exp)) - 1
    /\ coeffs # IEZero

(* -------------------- a supplied decomposition ------------------------- *)
\* the decomposition with owner a written as owner b
RECURSIVE Rename(_, _, _)
Rename(input, a, b) ==
    CASE input.kind = "Var" -> RDVar(IF input.id = a THEN b ELSE input.id)
      [] input.kind = "Hybrid" ->
            RDHybrid(input.hybrid_exp,
                     [k \in 1..Len(input.sub_exps) |-> Rename(input.sub_exps[k], a, b)])
      [] OTHER ->
            [kind |-> input.kind,
             children |-> [k \in 1..Len(input.children) |->
                              Rename(input.children[k], a, b)]]

\* decompositions as DecomposeTree::new may be handed: the structural
\* decompositions, and those with one owner written as another, whose
\* sibling owner sets overlap
InitSupplied ==
    /\ pc = "decomposed"
    /\ d \in {Rename(decompose_set(F), a, b) : F \in Dnfs, a \in Owners, b \in Owners}
    /\ ablation_type \in AblationTypes
    /\ game = NoVal /\ tree = NoVal /\ sv = NoVal
    /\ exp = NoVal /\ exp_unions = NoVal /\ coeffs = NoVal
    /\ reduce_state = NoVal

NextSupplied == NewTree \/ CalSv

SpecSupplied == InitSupplied /\ [][NextSupplied]_vars

RECURSIVE TreeOwners(_)
TreeOwners(t) ==
    CASE t.kind = "Var" -> {t.id}
      [] t.kind = "Leaf" -> all_variables(t.exp)
      [] OTHER -> UNION {TreeOwners(t.children[k]) : k \in 1..Len(t.children)}

\* some And or Or node inserts the share of a Var child under a key that a
\* sibling's result already holds
RECURSIVE InsertCollision(_)
InsertCollision(t) ==
    /\ t.kind \in {"And", "Or", "Hybrid"}
    /\ \/ /\ t.kind \in {"And", "Or"}
          /\ \E i \in 1..Len(t.children), j \in 1..Len(t.children) :
                /\ i # j
                /\ t.children[j].kind = "Var"
                /\ t.children[j].id \in TreeOwners(t.children[i])
       \/ \E k \in 1..Len(t.children) : InsertCollision(t.children[k])

(* C7: when two sibling sub-decompositions share an owner, the merge of the
   per-child results in cal_sv detects the colliding owner and fails: no
   mapping is returned in which one of the colliding shares was dropped or
   overwritten. *)
C7_CollisionDetected ==
    (pc = "done" /\ InsertCollision(tree)) => FALSE


(* ------------------ the coefficient of a node of the tree -------------- *)
\* coeffs() asked of the node itself
coeffs_calls_on_self(t) == <<t>>
\* the nodes DecomposeTree::new calls coeffs() on while it builds t: the
\* children of every And, Or and Hybrid node (lines 64-66, 87-89, 113-115);
\* cal_sv (lines 153-275) makes no such call
RECURSIVE coeffs_calls(_)
RECURSIVE coeffs_calls_below(_, _)
coeffs_calls_below(t, k) ==
    IF k > Len(t.children) THEN <<>>
    ELSE coeffs_calls(t.children[k]) \o coeffs_calls_below(t, k + 1)

coeffs_calls(t) ==
    IF t.kind \in {"Var", "Leaf"} THEN <<>>
    ELSE t.children \o coeffs_calls_below(t, 1)

\* the unwrap of lines 146-149 fails on an absent coefficient
coeffs_unwrap_panics(t) == t.kind # "Var" /\ t.coeffs = None

\* the nodes strictly below t
RECURSIVE ProperNodes(_)
ProperNodes(t) ==
    IF t.kind \in {"Var", "Leaf"} THEN {}
    ELSE UNION {{t.children[k]} \cup ProperNodes(t.children[k]) :
                   k \in 1..Len(t.children)}

(* C11: in the tree built by DecomposeTree::new(d, true, mode) a root that is
   an And, Or, Hybrid or Leaf node has no coefficient, every And, Or, Hybrid
   and Leaf node below the root has one, and coeffs() is called on nodes
   below the root only, so that none of its calls unwraps an absent
   coefficient. *)
C11_CoeffsAbsentOnlyAtRoot ==
    Built =>
        LET calls == coeffs_calls(tree)
        IN /\ tree.kind # "Var" => tree.coeffs = None
           /\ \A n \in ProperNodes(tree) :
                 n.kind # "Var" => (n.coeffs # None /\ Len(n.coeffs) = 1)
           /\ SeqRange(calls) \subseteq ProperNodes(tree)
           /\ \A c \in 1..Len(calls) : ~coeffs_unwrap_panics(calls[c])

C11_Witness ==
    /\ Built
    /\ tree.kind \in {"And", "Or"}
    /\ tree.coeffs = None
    /\ \E k \in 1..Len(tree.children) :
          /\ tree.children[k].kind \in {"And", "Or"}
          /\ tree.children[k].coeffs # None
          /\ \E j \in 1..Len(tree.children[k].children) :
                /\ tree.children[k].children[j].kind \in {"And", "Or", "Leaf"}
                /\ tree.children[k].children[j].coeffs # None


(* ---------------- cal_sv as a fork-join of parallel tasks -------------- *)
\* the node of t at the path p of child indices
RECURSIVE NodeAt(_, _)
NodeAt(t, p) ==
    IF Len(p) = 0 THEN t ELSE NodeAt(t.children[Head(p)], Tail(p))

\* the weight cal_sv hands to child k (lines 177-178, 211-212, 236-245)
child_gamma_map(node, gamma_map, k) ==
    IF node.kind = "Hybrid" THEN hybrid_next_gamma_map(node, gamma_map, k)
    ELSE next_gamma_map(node, gamma_map, k)

\* the weight cal_sv is called with on the node at path p
RECURSIVE GammaAt(_, _, _)
GammaAt(t, gamma_map, p) ==
    IF Len(p) = 0 THEN gamma_map
    ELSE GammaAt(t.children[Head(p)], child_gamma_map(t, gamma_map, Head(p)), Tail(p))

\* the paths of the nodes whose cal_sv runs a parallel reduce: the And, Or,
\* Hybrid and Leaf nodes (a Var child of an And or Or node is filtered out at
\* lines 175 and 209, a Var child of a Hybrid node returns at line 158)
RECURSIVE ReducePaths(_, _)
ReducePaths(t, p) ==
    CASE t.kind = "Var" -> {}
      [] t.kind = "Leaf" -> {p}
      [] OTHER -> {p} \cup UNION {ReducePaths(t.children[k], Append(p, k)) :
                                     k \in 1..Len(t.children)}

\* the tasks of a node's fan-out that fan out no further: the variables of a
\* Leaf (line 250), the Var children of a Hybrid node (line 246)
LeafTasks(node) ==
    CASE node.kind = "Leaf" -> all_variables(node.exp)
      [] node.kind = "Hybrid" ->
            {k \in 1..Len(node.children) : node.children[k].kind = "Var"}
      [] OTHER -> {}

\* the partial mapping such a task produces (lines 246, 252-271)
task_result(node, gamma_map, key) ==
    IF node.kind = "Leaf"
    THEN SvFrom(key, leaf_sv(node.exp, gamma_map, key))
    ELSE cal_sv(node.children[key], hybrid_next_gamma_map(node, gamma_map, key))

\* the sequential inserts after the reduce of an And or Or node (183-190,
\* 217-224)
fast_path(node, gamma_map, ans) ==
    LET var_children == IdxWhere(node.children, 1, TRUE)
    IN IF node.kind \in {"And", "Or"} /\ Len(var_children) > 0
       THEN SvInsertAll(ans, var_child_ids(node, var_children),
                        to_sv(IEMul(IEFrom(1, 1),
                                    next_gamma_map(node, gamma_map,
                                                   fast_path_index(var_children)))))
       ELSE ans

\* line 27: cal_sv is called on the root; every reduce of the tree may start.
\* A task reads its node and its weight only, both fixed from here on, so the
\* mapping it will produce (results) is fixed as well; when it ends is not.
Fork ==
    /\ pc = "built"
    /\ IF tree.kind = "Var"
       THEN /\ sv' = cal_sv(tree, IEFrom(0, 1))
            /\ pc' = "done"
            /\ reduce_state' = reduce_state
       ELSE /\ reduce_state' = [p \in ReducePaths(tree, <<>>) |->
                                  [gamma_map |-> GammaAt(tree, IEFrom(0, 1), p),
                                   todo |-> LeafTasks(NodeAt(tree, p)),
                                   results |->
                                       [key \in LeafTasks(NodeAt(tree, p)) |->
                                           task_result(NodeAt(tree, p),
                                                       GammaAt(tree, IEFrom(0, 1), p),
                                                       key)],
                                   parts |-> {}]]
            /\ pc' = "running"
            /\ sv' = sv
    /\ UNCHANGED <<game, ablation_type, d, tree, exp, exp_unions, coeffs>>

\* one task of a fan-out ends and leaves its partial mapping to be reduced;
\* a partial mapping is kept with the tasks it stems from (src) and the two
\* operands of the merge that made it (merged)
TaskDone ==
    /\ pc = "running"
    /\ \E p \in DOMAIN reduce_state : \E key \in reduce_state[p].todo :
          LET part == [src |-> {key}, merged |-> <<>>,
                       map |-> reduce_state[p].results[key]]
          IN reduce_state' = [reduce_state EXCEPT ![p] =
                                 [gamma_map |-> @.gamma_map,
                                  results |-> @.results,
                                  todo |-> @.todo \ {key},
                                  parts |-> @.parts \cup {part}]]
    /\ UNCHANGED <<game, ablation_type, pc, d, tree, sv, exp, exp_unions, coeffs>>

\* the reduce keeps the first of the two partial mappings only
MergeKeepsOne ==
    /\ pc = "running"
    /\ \E p \in DOMAIN reduce_state :
          \E a \in reduce_state[p].parts : \E b \in reduce_state[p].parts \ {a} :
             reduce_state' = [reduce_state EXCEPT ![p].parts =
                                 (@ \ {a, b}) \cup
                                 {[src |-> a.src \cup b.src,
                                   merged |-> <<a.src, b.src>>,
                                   map |-> a.map]}]
    /\ UNCHANGED <<game, ablation_type, pc, d, tree, sv, exp, exp_unions, coeffs>>
\* .reduce(ShapleyValues::default, hashmap_reduce) of lines 181, 215, 248 and
\* 273: any two partial mappings of a node are merged, in either order
Merge ==
    /\ pc = "running"
    /\ \E p \in DOMAIN reduce_state :
          \E a \in reduce_state[p].parts : \E b \in reduce_state[p].parts \ {a} :
             reduce_state' = [reduce_state EXCEPT ![p].parts =
                                 (@ \ {a, b}) \cup
                                 {[src |-> a.src \cup b.src,
                                   merged |-> <<a.src, b.src>>,
                                   map |-> hashmap_reduce(a.map, b.map)]}]
    /\ UNCHANGED <<game, ablation_type, pc, d, tree, sv, exp, exp_unions, coeffs>>

\* a node's reduce ends once all its tasks have ended and their mappings are
\* merged into one; the fast path follows, and the node's mapping goes to the
\* reduce of its parent or, from the root, to the caller
Join ==
    /\ pc = "running"
    /\ \E p \in DOMAIN reduce_state :
          /\ reduce_state[p].todo = {}
          /\ ~ \E q \in DOMAIN reduce_state :
                  Len(q) = Len(p) + 1 /\ SubSeq(q, 1, Len(p)) = p
          /\ Cardinality(reduce_state[p].parts) <= 1
          /\ LET node == NodeAt(tree, p)
                 gamma_map == reduce_state[p].gamma_map
                 reduced == IF reduce_state[p].parts = {} THEN SvDefault
                            ELSE hashmap_reduce(SvDefault,
                                     (CHOOSE x \in reduce_state[p].parts : TRUE).map)
                 ans == fast_path(node, gamma_map, reduced)
                 parent == SubSeq(p, 1, Len(p) - 1)
             IN IF Len(p) = 0
                THEN /\ sv' = ans
                     /\ pc' = "done"
                     /\ reduce_state' = reduce_state
                ELSE /\ reduce_state' =
                          [q \in (DOMAIN reduce_state) \ {p} |->
                              IF q = parent
                              THEN [gamma_map |-> reduce_state[q].gamma_map,
                                    results |-> reduce_state[q].results,
                                    todo |-> reduce_state[q].todo,
                                    parts |-> reduce_state[q].parts \cup
                                              {[src |-> {p[Len(p)]}, merged |-> <<>>,
                                                map |-> ans]}]
                              ELSE reduce_state[q]]
                     /\ pc' = pc
                     /\ sv' = sv
    /\ UNCHANGED <<game, ablation_type, d, tree, exp, exp_unions, coeffs>>

\* the games whose owner set holds every variable of the formula
InitPar ==
    /\ game \in {[dnf |-> SortImps(F), owner_set |-> Owners] : F \in Dnfs}
    /\ ablation_type \in AblationTypes
    /\ pc = "start"
    /\ d = NoVal /\ tree = NoVal /\ sv = NoVal
    /\ exp = NoVal /\ exp_unions = NoVal /\ coeffs = NoVal
    /\ reduce_state = NoVal

NextPar == Decompose \/ NewTree \/ Fork \/ TaskDone \/ Merge \/ Join

SpecPar == InitPar /\ [][NextPar]_vars

\* the owner sets of the children of every node are pairwise disjoint
RECURSIVE DisjointSiblings(_)
DisjointSiblings(t) ==
    \/ t.kind \in {"Var", "Leaf"}
    \/ /\ \A i \in 1..Len(t.children), j \in 1..Len(t.children) :
             i # j => TreeOwners(t.children[i]) \cap TreeOwners(t.children[j]) = {}
       /\ \A k \in 1..Len(t.children) : DisjointSiblings(t.children[k])

(* C12: for a tree whose sibling owner sets are pairwise disjoint, whatever
   the order in which the tasks of the fan-outs end and their partial
   mappings are merged, the mapping handed to the caller is the one the
   sequential evaluation of the tree returns. *)
C12_OrderIndependent ==
    (pc = "done" /\ DisjointSiblings(tree)) => sv = cal_sv(tree, IEFrom(0, 1))

\* the last merge at the root joined mappings of tasks that are not
\* neighbours: a task of its second operand lies between two of its first
C12_Witness ==
    /\ pc = "done" /\ DisjointSiblings(tree)
    /\ tree.kind \in {"Hybrid", "Leaf"}
    /\ Cardinality(DOMAIN sv) = NumOwners
    /\ \E x \in reduce_state[<<>>].parts :
          /\ Len(x.merged) = 2
          /\ \E i \in x.merged[1], k \in x.merged[2], j \in x.merged[1] :
                i < k /\ k < j

=============================================================================
